---- MODULE Spec2Model ----
(***************************************************************************)
(* Model of backend/monitoring/contract_monitor.py: the ContractMonitor    *)
(* supervisor (start_monitoring), the per-contract monitor loop            *)
(* (monitor_contract), the threat evaluator (analyze_transaction), the     *)
(* log query (get_contract_transactions) and the notification dispatcher   *)
(* (send_notifications).                                                   *)
(*                                                                         *)
(* Amounts of native token are integers of wei in the program and exceed   *)
(* the model checker's integers (10 ether = 10^19 wei), so an amount is    *)
(* kept exactly, as three limbs <<ether, gwei, wei>> that stand for        *)
(* ether * 10^18 + gwei * 10^9 + wei, the last two below 10^9.             *)
(***************************************************************************)
EXTENDS Integers, Sequences, FiniteSets, TLC

\* ------------------------------------------------------------------ bounds
\* Start requests made to the supervisor (and so thread slots).
MaxCallers == 2
\* Block heights the chain client may report lie in
\* DefaultLookback - 1 .. DefaultLookback + MaxBlocks.
MaxBlocks == 1
\* Log entries one get_logs query may return.
MaxLogs == 1
\* Loop iterations that get as far as reading the chain height.
MaxScans == 2
\* Scans made in all while start requests race.
RaceScans == 1

\* ------------------------------------------------------- program constants
\* from_block default: current_block - 100
DefaultLookback == 100
\* web3.to_wei(10, 'ether')
HighValueEther == 10
\* receipt.get('gasUsed', 0) > 1000000
HighGasLimit == 1000000
\* time.sleep(60) of the critical-error path
CriticalBackoff == 60

\* ------------------------------------------------------------ wei amounts
ToWei(n) == <<n, 0, 0>>

\* a > b on amounts of wei
WeiGT(a, b) ==
    \/ a[1] > b[1]
    \/ a[1] = b[1] /\ a[2] > b[2]
    \/ a[1] = b[1] /\ a[2] = b[2] /\ a[3] > b[3]

\* web3.from_wei(v, 'ether'): the decimal number of whole units, its integer
\* part and its 18-digit fraction (as gwei and wei digits).
FromWei(v) == [whole |-> v[1], frac |-> <<v[2], v[3]>>]

\* ------------------------------------------------------- threat evaluator
\* The three rule checks of analyze_transaction, in the code's order.
HighValueRule(tx) == WeiGT(tx.value, ToWei(HighValueEther))

FailedRule(tx) == tx.receipt /\ tx.status = 0

HighGasRuleInclusive(tx) == tx.receipt /\ tx.gasUsed >= HighGasLimit

HighGasRule(tx) == tx.receipt /\ tx.gasUsed > HighGasLimit

HighValueThreat(tx) ==
    [type |-> "high_value_transfer",
     description |-> <<"High value transfer", FromWei(tx.value)>>]

FailedThreat(tx) ==
    [type |-> "failed_transaction",
     description |-> <<"Failed transaction detected", tx.hash>>]

HighGasThreat(tx) ==
    [type |-> "high_gas_usage",
     description |-> <<"High gas usage", tx.gasUsed>>]

\* The evaluation raises before any rule is checked: the log entry has no
\* transactionHash (''.hex() raises), the transaction or receipt lookup
\* raises, or the value is not a number (from_wei raises while logging).
FailsBeforeRules(tx) == ~tx.hasHash \/ ~tx.lookupOk \/ ~tx.valueOk

\* receipt.get('gasUsed', 0) > 1000000 raises when the receipt carries a
\* gasUsed that is not a number.
FailsAtGasRule(tx) == tx.receipt /\ ~tx.gasOk

\* analyze_transaction: threats is appended to rule by rule inside the try
\* block; an exception leaves the try block and the function returns threats
\* as it stands at that point.
analyze_transaction(tx) ==
    IF FailsBeforeRules(tx) THEN <<>>
    ELSE LET t1 == IF HighValueRule(tx) THEN <<HighValueThreat(tx)>> ELSE <<>>
             t2 == IF FailedRule(tx) THEN Append(t1, FailedThreat(tx)) ELSE t1
         IN  IF FailsAtGasRule(tx) THEN t2
             ELSE IF HighGasRule(tx) THEN Append(t2, HighGasThreat(tx)) ELSE t2

\* An internal failure occurs somewhere in the evaluation of tx.
InternalFailure(tx) == FailsBeforeRules(tx) \/ FailsAtGasRule(tx)


\* ---------------------------------------------------------------- inputs
\* A log entry together with what the chain client returns for its
\* transaction hash: hasHash (the entry carries a transactionHash), lookupOk
\* (get_transaction and get_transaction_receipt return), value and valueOk
\* (tx_details['value'], and whether it is a number), receipt (a receipt
\* exists), status, gasUsed and gasOk (whether gasUsed is a number).
Tx(h, hh, lk, v, vok, r, st, g, gok) ==
    [hash |-> h, hasHash |-> hh, lookupOk |-> lk, value |-> v, valueOk |-> vok,
     receipt |-> r, status |-> st, gasUsed |-> g, gasOk |-> gok]

WeiValues ==
    {<<0, 0, 0>>, <<9, 999999999, 999999999>>, <<10, 0, 0>>, <<10, 0, 1>>,
     <<15, 0, 0>>}

GasValues == {50000, HighGasLimit - 1, HighGasLimit, HighGasLimit + 1}

\* The inputs of the threat evaluator.
TxInputs ==
    {Tx("0xaa", hh, lk, v, vok, r, st, g, gok) :
        hh \in BOOLEAN, lk \in BOOLEAN, v \in WeiValues, vok \in BOOLEAN,
        r \in BOOLEAN, st \in {0, 1}, g \in GasValues, gok \in BOOLEAN}

\* The transactions the chain holds for the monitored contract.
TxQuiet == Tx("0x01", TRUE, TRUE, <<1, 0, 0>>, TRUE, TRUE, 1, 50000, TRUE)
TxHigh == Tx("0x02", TRUE, TRUE, <<15, 0, 0>>, TRUE, TRUE, 1, 50000, TRUE)
TxBadGas == Tx("0x03", TRUE, TRUE, <<10, 0, 1>>, TRUE, TRUE, 0, 0, FALSE)

ChainTxs == {TxQuiet, TxHigh, TxBadGas}

RECURSIVE SeqsUpTo(_, _)
SeqsUpTo(S, n) ==
    IF n = 0 THEN {<<>>}
    ELSE LET shorter == SeqsUpTo(S, n - 1)
         IN  shorter \cup {Append(q, x) : q \in shorter, x \in S}

\* What one get_logs query may return.
LogResults == SeqsUpTo(ChainTxs, MaxLogs)

Heights == (DefaultLookback - 1)..(DefaultLookback + MaxBlocks)

ContractIds == {1}
Callers == 1..MaxCallers
Threads == Callers
Subscribers == <<"a@x", "b@x">>

\* get_web3's providers table
Providers == {"ethereum", "base", "base-sepolia"}

\* get_sleep_time
get_sleep_time(frequency) ==
    CASE frequency = "1min" -> 60
      [] frequency = "5min" -> 300
      [] frequency = "15min" -> 900
      [] frequency = "30min" -> 1800
      [] frequency = "1hour" -> 3600
      [] OTHER -> 300

\* ------------------------------------------------------------------ state
VARIABLES
    monitors,              \* self.monitors: contract id -> thread
    last_processed_block,  \* self.last_processed_block: contract id -> height
    callerPc,              \* where each start_monitoring call stands
    loop,                  \* each monitor thread: position, locals, session
    db,                    \* the committed rows: contracts, alerts, alert emails
    scansLeft,             \* iterations the model still lets the loops begin
    atx, aresult           \* an evaluator input and its result

vars ==
    <<monitors, last_processed_block, callerPc, loop, db, scansLeft, atx, aresult>>

NotEvaluated == [done |-> FALSE, threats |-> <<>>]

NoSession ==
    [open |-> FALSE, status |-> "", threat_level |-> "",
     monitoring_frequency |-> "", network |-> "", pending |-> <<>>]

NoSnapshot == [status |-> "", threat_level |-> "", alerts |-> <<>>]

\* A thread that start_monitoring has not created. The fields after emails
\* record what the current iteration did; prevQuery is the window of the last
\* scan that advanced the cursor, and normal tells that every iteration so far
\* was a scan that completed without error, at heights that did not decrease.
Unborn ==
    [pc |-> "unborn", contract_id |-> 0, session |-> NoSession,
     current_block |-> 0, from_block |-> 0, hadCursor |-> FALSE,
     query |-> <<>>, transactions |-> <<>>,
     idx |-> 0, all_threats |-> <<>>, emails |-> <<>>,
     before |-> NoSnapshot, statusWrites |-> 0, attempts |-> <<>>,
     delivered |-> <<>>, commits |-> 0, committed |-> FALSE,
     advanced |-> FALSE, failed |-> "", slept |-> 0, exit |-> "",
     prevQuery |-> <<>>, normal |-> TRUE]

\* The locals of an iteration that begins.
Fresh(l, c) ==
    [Unborn EXCEPT !.pc = "load", !.contract_id = c, !.slept = l.slept,
                   !.exit = l.exit,
                   !.prevQuery = IF l.advanced THEN l.query ELSE l.prevQuery,
                   !.normal = /\ l.normal
                              /\ l.failed = ""
                              /\ l.exit \in {"", "sleep"}
                              /\ \/ l.prevQuery = <<>>
                                 \/ l.query = <<>>
                                 \/ l.query[2] >= l.prevQuery[2]]

ContractRow(st, lv, fr, nw) ==
    [exists |-> TRUE, status |-> st, threat_level |-> lv,
     monitoring_frequency |-> fr, network |-> nw]

\* Rows the management surface may have created: a frequency of the table
\* and one that is not, a network of the providers table and one that is not.
ContractRows ==
    {ContractRow("Normal", "Low", "5min", "base"),
     ContractRow("Warning", "High", "weekly", "base-sepolia"),
     ContractRow("Normal", "High", "1hour", "solana")}

\* A start_monitoring call that has not begun. afterStop records that the
\* registered thread had already stopped when the call checked the registry.
IdleCaller == [pc |-> "idle", contract_id |-> 0, afterStop |-> FALSE]

\* __init__, with the rows the management surface has created.
InitState ==
    /\ monitors = << >>
    /\ last_processed_block = << >>
    /\ callerPc = [k \in Callers |-> IdleCaller]
    /\ loop = [t \in Threads |-> Unborn]
    /\ db \in [contracts : [ContractIds -> ContractRows], alerts : {<<>>},
               emails : {<<>>, Subscribers}]
    /\ atx = TxQuiet
    /\ aresult = NotEvaluated

Init == InitState /\ scansLeft = MaxScans

\* ------------------------------------------------------------- supervisor
\* threading.Thread(target=self.monitor_contract, ...).start()
Spawn(t, c) == [loop EXCEPT ![t] = Fresh(Unborn, c)]

Register(m, c, t) == [k \in DOMAIN m \cup {c} |-> IF k = c THEN t ELSE m[k]]

\* The registered thread of c has left its loop (the code never asks).
RegisteredStopped(c) ==
    c \in DOMAIN monitors /\ loop[monitors[c]].pc = "Stopped"

NotMonitoredOrStopped(c) == c \notin DOMAIN monitors \/ RegisteredStopped(c)

\* contract_id not in self.monitors
NotMonitored(c) == c \notin DOMAIN monitors

\* start_monitoring, run without another call in between: the k-th call.
start_monitoring(k, c) ==
    /\ callerPc[k].pc = "idle"
    /\ \A o \in Callers : callerPc[o].pc = IF o < k THEN "done" ELSE "idle"
    /\ callerPc' = [callerPc EXCEPT ![k] =
           [pc |-> "done", contract_id |-> c, afterStop |-> RegisteredStopped(c)]]
    /\ IF NotMonitored(c)
       THEN /\ loop' = Spawn(k, c)
            /\ monitors' = Register(monitors, c, k)
       ELSE UNCHANGED <<loop, monitors>>
    /\ UNCHANGED <<last_processed_block, db, scansLeft, atx, aresult>>

\* start_monitoring step by step, as calls on several threads interleave:
\* the membership test,
StartCheck(k, c) ==
    /\ callerPc[k].pc = "idle"
    /\ callerPc' = [callerPc EXCEPT ![k] =
           [pc |-> IF NotMonitored(c) THEN "spawn" ELSE "done",
            contract_id |-> c, afterStop |-> RegisteredStopped(c)]]
    /\ UNCHANGED <<monitors, last_processed_block, loop, db, scansLeft, atx, aresult>>

\* thread.start(),
StartThread(k) ==
    /\ callerPc[k].pc = "spawn"
    /\ loop' = Spawn(k, callerPc[k].contract_id)
    /\ callerPc' = [callerPc EXCEPT ![k].pc = "register"]
    /\ UNCHANGED <<monitors, last_processed_block, db, scansLeft, atx, aresult>>

\* and self.monitors[contract_id] = thread.
StartRegister(k) ==
    /\ callerPc[k].pc = "register"
    /\ monitors' = Register(monitors, callerPc[k].contract_id, k)
    /\ callerPc' = [callerPc EXCEPT ![k].pc = "done"]
    /\ UNCHANGED <<last_processed_block, loop, db, scansLeft, atx, aresult>>

\* ----------------------------------------------------------- monitor loop
Row(c) == db.contracts[c]

OnCriticalErrorStops(l, why) ==
    [l EXCEPT !.pc = "Stopped", !.failed = why, !.session = NoSession]

\* An exception that leaves the per-iteration body: except Exception of the
\* while loop, which logs and then sleeps 60 seconds. The session is closed
\* by its with block, what it holds is dropped.
OnCriticalError(l, why) ==
    [l EXCEPT !.pc = "backoff", !.failed = why, !.session = NoSession]

OnProcessingErrorAdvances(l, why) == [l EXCEPT !.pc = "advance", !.failed = why]

\* An exception inside the inner try block: except Exception logs, and the
\* iteration goes on with the sleep of the configured frequency.
OnProcessingError(l, why) == [l EXCEPT !.pc = "sleep", !.failed = why]

OnNotFoundRetries(l) == [l EXCEPT !.pc = "backoff", !.failed = "notfound"]

\* if not contract: log a warning and break; the thread's function returns
OnNotFound(l) == [l EXCEPT !.pc = "Stopped"]

\* with self.db_session() as session: contract = session.query(Contract).get(id)
LoadContract(t) ==
    /\ loop[t].pc = "load"
    /\ LET l == loop[t]
           c == l.contract_id
       IN  \/ /\ loop' = [loop EXCEPT ![t] = OnCriticalError(l, "db")]
              /\ UNCHANGED scansLeft
           \/ /\ ~Row(c).exists
              /\ loop' = [loop EXCEPT ![t] = OnNotFound(l)]
              /\ UNCHANGED scansLeft
           \/ /\ Row(c).exists
              /\ scansLeft > 0
              /\ scansLeft' = scansLeft - 1
              /\ loop' = [loop EXCEPT ![t] =
                    [l EXCEPT !.pc = "connect", !.slept = 0, !.exit = "",
                              !.session = [open |-> TRUE,
                                  status |-> Row(c).status,
                                  threat_level |-> Row(c).threat_level,
                                  monitoring_frequency |-> Row(c).monitoring_frequency,
                                  network |-> Row(c).network,
                                  pending |-> <<>>],
                              !.before = [status |-> Row(c).status,
                                  threat_level |-> Row(c).threat_level,
                                  alerts |-> db.alerts]]]
    /\ UNCHANGED <<monitors, last_processed_block, callerPc, db, atx, aresult>>

FromBlockDefaultOnly(lpb, c, current_block) == current_block - DefaultLookback

\* self.last_processed_block.get(contract_id, current_block - 100)
FromBlock(lpb, c, current_block) ==
    IF c \in DOMAIN lpb THEN lpb[c] ELSE current_block - DefaultLookback

\* get_web3, to_checksum_address, web3.eth.block_number and the window
Connect(t) ==
    /\ loop[t].pc = "connect"
    /\ LET l == loop[t]
           c == l.contract_id
       IN  \/ /\ l.session.network \notin Providers
              /\ loop' = [loop EXCEPT ![t] = OnCriticalError(l, "config")]
           \/ /\ l.session.network \in Providers
              /\ loop' = [loop EXCEPT ![t] = OnCriticalError(l, "rpc")]
           \/ /\ l.session.network \in Providers
              /\ \E h \in Heights :
                    loop' = [loop EXCEPT ![t] =
                        [l EXCEPT !.pc = "get_code",
                                  !.current_block = h,
                                  !.hadCursor = c \in DOMAIN last_processed_block,
                                  !.from_block = FromBlock(last_processed_block, c, h)]]
    /\ UNCHANGED <<monitors, last_processed_block, callerPc, db, scansLeft, atx, aresult>>

OnNoCodeRetries(l) == [l EXCEPT !.pc = "connect", !.exit = "nocode"]

\* if len(code) == 0: log the error and continue: the with block ends, the
\* next iteration begins, nothing sleeps
OnNoCode(l) == Fresh([l EXCEPT !.exit = "nocode"], l.contract_id)

\* web3.eth.get_code and get_balance; continue when there is no code
GetCode(t) ==
    /\ loop[t].pc = "get_code"
    /\ LET l == loop[t]
       IN  \/ loop' = [loop EXCEPT ![t] = OnProcessingError(l, "rpc")]
           \/ loop' = [loop EXCEPT ![t] = OnNoCode(l)]
           \/ loop' = [loop EXCEPT ![t] = [l EXCEPT !.pc = "get_logs"]]
    /\ UNCHANGED <<monitors, last_processed_block, callerPc, db, scansLeft, atx, aresult>>

\* if transactions: ... else: "No new transactions found"
AfterLogs(l, txs) ==
    IF txs # <<>>
    THEN [l EXCEPT !.pc = "analyze", !.transactions = txs, !.idx = 1]
    ELSE [l EXCEPT !.pc = "advance", !.transactions = txs]

OnBlockNotFoundRaises(l) == OnProcessingError(l, "BlockNotFound")

\* except BlockNotFound: log a warning and return []
OnBlockNotFound(l) == AfterLogs([l EXCEPT !.failed = "BlockNotFound"], <<>>)

\* get_contract_transactions: two get_logs queries, concatenated; [] on
\* BlockNotFound; any other exception reaches monitor_contract's inner except
get_contract_transactions(t) ==
    /\ loop[t].pc = "get_logs"
    /\ LET l == [loop[t] EXCEPT !.query =
                    <<loop[t].from_block, loop[t].current_block>>]
       IN  \/ loop' = [loop EXCEPT ![t] = OnBlockNotFound(l)]
           \/ loop' = [loop EXCEPT ![t] = OnProcessingError(l, "rpc")]
           \/ \E to_contract \in LogResults, from_contract \in LogResults :
                  loop' = [loop EXCEPT ![t] =
                      AfterLogs(l, to_contract \o from_contract)]
    /\ UNCHANGED <<monitors, last_processed_block, callerPc, db, scansLeft, atx, aresult>>

ExtendOverwrite(all_threats, threats) ==
    IF threats # <<>> THEN threats ELSE all_threats

\* if threats: all_threats.extend(threats)
Extend(all_threats, threats) ==
    IF threats # <<>> THEN all_threats \o threats ELSE all_threats

ThreatsFoundAlways(all_threats) == TRUE

\* if all_threats:
ThreatsFound(all_threats) == all_threats # <<>>

\* for idx, tx in enumerate(transactions, 1): one transaction
Analyze(t) ==
    /\ loop[t].pc = "analyze"
    /\ LET l == loop[t]
           all == Extend(l.all_threats, analyze_transaction(l.transactions[l.idx]))
           last == l.idx = Len(l.transactions)
       IN  loop' = [loop EXCEPT ![t] =
               [l EXCEPT !.all_threats = all,
                         !.idx = IF last THEN 1 ELSE l.idx + 1,
                         !.pc = IF ~last THEN "analyze"
                                ELSE IF ThreatsFound(all) THEN "alert"
                                ELSE "advance"]]
    /\ UNCHANGED <<monitors, last_processed_block, callerPc, db, scansLeft, atx, aresult>>

\* contract.status = 'Warning'; contract.threat_level = 'Medium'
UpdateStatus(t) ==
    /\ loop[t].pc = "alert"
    /\ loop' = [loop EXCEPT ![t] =
           [@ EXCEPT !.session.status = "Warning",
                     !.session.threat_level = "Medium",
                     !.statusWrites = @ + 1,
                     !.idx = 1,
                     !.pc = IF loop[t].all_threats = <<>> THEN "notify"
                            ELSE "add_alerts"]]
    /\ UNCHANGED <<monitors, last_processed_block, callerPc, db, scansLeft, atx, aresult>>

\* Alert(contract_id=contract.id, type=threat['type'], description=...)
Alert(c, threat) ==
    [contract_id |-> c, type |-> threat.type, description |-> threat.description]

\* session.add(alert): the row waits in the session, the committed rows stay
SessionAdd(session, alert) == [session EXCEPT !.pending = Append(@, alert)]

\* for threat in all_threats: one threat
AddAlert(t) ==
    /\ loop[t].pc = "add_alerts"
    /\ LET l == loop[t]
           last == l.idx = Len(l.all_threats)
       IN  loop' = [loop EXCEPT ![t] =
               [l EXCEPT !.session =
                             SessionAdd(@, Alert(l.contract_id, l.all_threats[l.idx])),
                         !.idx = IF last THEN 1 ELSE l.idx + 1,
                         !.pc = IF last THEN "notify" ELSE "add_alerts"]]
    /\ UNCHANGED <<monitors, last_processed_block, callerPc, db, scansLeft, atx, aresult>>

\* The message of send_notifications: the contract and one line per threat.
Message(c, threats) ==
    [contract |-> c,
     lines |-> [i \in 1..Len(threats) |-> <<threats[i].type, threats[i].description>>]]

\* send_notifications: emails = session.query(AlertEmail).filter_by(...).all();
\* a failure of the query is caught by the outer except of send_notifications
NotifyQuery(t) ==
    /\ loop[t].pc = "notify"
    /\ LET l == loop[t]
       IN  \/ loop' = [loop EXCEPT ![t] = [l EXCEPT !.pc = "commit"]]
           \/ loop' = [loop EXCEPT ![t] =
                  [l EXCEPT !.emails = db.emails,
                            !.pc = IF db.emails = <<>> THEN "commit" ELSE "send"]]
    /\ UNCHANGED <<monitors, last_processed_block, callerPc, db, scansLeft, atx, aresult>>

OnDeliveryFailureAborts(l) ==
    [l EXCEPT !.emails = <<>>, !.pc = "commit",
              !.attempts = Append(@, Head(l.emails))]

\* except Exception inside the for loop: the failure of one send_alert_email
\* is logged and the loop goes on with the next address
OnDeliveryFailure(l) ==
    [l EXCEPT !.emails = Tail(l.emails),
              !.pc = IF Tail(l.emails) = <<>> THEN "commit" ELSE "send",
              !.attempts = Append(@, Head(l.emails))]

\* for email in emails: send_alert_email(...), its failure caught and logged
SendEmail(t) ==
    /\ loop[t].pc = "send"
    /\ LET l == loop[t]
           to == Head(l.emails)
           rest == Tail(l.emails)
           next == IF rest = <<>> THEN "commit" ELSE "send"
       IN  \/ loop' = [loop EXCEPT ![t] = OnDeliveryFailure(l)]
           \/ loop' = [loop EXCEPT ![t] =
                  [l EXCEPT !.emails = rest, !.pc = next,
                            !.attempts = Append(@, to),
                            !.delivered = Append(@,
                                [to |-> to,
                                 message |-> Message(l.contract_id, l.all_threats)])]]
    /\ UNCHANGED <<monitors, last_processed_block, callerPc, db, scansLeft, atx, aresult>>

CommitDbStatusOnly(d, session, c) ==
    [d EXCEPT !.contracts[c].status = session.status,
              !.contracts[c].threat_level = session.threat_level]

\* session.commit() that succeeds: the contract's changed fields and the
\* session's pending rows become the committed rows, together.
CommitDb(d, session, c) ==
    [d EXCEPT !.contracts[c].status = session.status,
              !.contracts[c].threat_level = session.threat_level,
              !.alerts = @ \o session.pending]

\* session.commit(); its failure is an exception inside the inner try block
Commit(t) ==
    /\ loop[t].pc = "commit"
    /\ LET l == loop[t]
       IN  \/ /\ db' = CommitDb(db, l.session, l.contract_id)
              /\ loop' = [loop EXCEPT ![t] =
                     [l EXCEPT !.pc = "advance", !.commits = @ + 1,
                               !.committed = TRUE,
                               !.session.pending = <<>>]]
           \/ /\ loop' = [loop EXCEPT ![t] =
                     [OnProcessingError(l, "commit") EXCEPT !.commits = @ + 1]]
              /\ UNCHANGED db
    /\ UNCHANGED <<monitors, last_processed_block, callerPc, scansLeft, atx, aresult>>

\* self.last_processed_block[contract_id] = current_block
AdvanceCursor(lpb, c, current_block) == Register(lpb, c, current_block)

Advance(t) ==
    /\ loop[t].pc = "advance"
    /\ last_processed_block' =
           AdvanceCursor(last_processed_block, loop[t].contract_id,
                         loop[t].current_block)
    /\ loop' = [loop EXCEPT ![t] = [@ EXCEPT !.pc = "sleep", !.advanced = TRUE]]
    /\ UNCHANGED <<monitors, callerPc, db, scansLeft, atx, aresult>>

\* time.sleep(self.get_sleep_time(contract.monitoring_frequency)), then the
\* with block ends and the next iteration begins
Sleep(t) ==
    /\ loop[t].pc = "sleep"
    /\ LET l == loop[t]
       IN  loop' = [loop EXCEPT ![t] =
               Fresh([l EXCEPT !.slept = get_sleep_time(l.session.monitoring_frequency),
                               !.exit = "sleep"], l.contract_id)]
    /\ UNCHANGED <<monitors, last_processed_block, callerPc, db, scansLeft, atx, aresult>>

\* time.sleep(60) of the critical-error path, then the next iteration
Backoff(t) ==
    /\ loop[t].pc = "backoff"
    /\ LET l == loop[t]
       IN  loop' = [loop EXCEPT ![t] =
               Fresh([l EXCEPT !.slept = CriticalBackoff, !.exit = "backoff"],
                     l.contract_id)]
    /\ UNCHANGED <<monitors, last_processed_block, callerPc, db, scansLeft, atx, aresult>>

\* The management surface deletes the contract row.
DeleteContract(c) ==
    /\ Row(c).exists
    /\ db' = [db EXCEPT !.contracts[c].exists = FALSE]
    /\ UNCHANGED <<monitors, last_processed_block, callerPc, loop, scansLeft, atx, aresult>>

\* send_notifications: the subscriber query, then one delivery per subscriber
send_notifications(t) ==
    \/ NotifyQuery(t)
    \/ SendEmail(t)

\* monitor_contract: one step of the thread's while loop
monitor_contract(t) ==
    \/ LoadContract(t)
    \/ Connect(t)
    \/ GetCode(t)
    \/ get_contract_transactions(t)
    \/ Analyze(t)
    \/ UpdateStatus(t)
    \/ AddAlert(t)
    \/ send_notifications(t)
    \/ Commit(t)
    \/ Advance(t)
    \/ Sleep(t)
    \/ Backoff(t)

Next ==
    \/ \E k \in Callers, c \in ContractIds : start_monitoring(k, c)
    \/ \E t \in Threads : monitor_contract(t)
    \/ \E c \in ContractIds : DeleteContract(c)

Spec == Init /\ [][Next]_vars

\* The load of the contract comes back with the row or with None, without
\* raising.
LoadReturns(t) == LoadContract(t) /\ loop'[t].failed # "db"

LiveScans == 1

InitLive == InitState /\ scansLeft = LiveScans

\* The monitor threads keep running, and the query of the contract does not
\* raise forever.
SpecLive ==
    /\ InitLive
    /\ [][Next]_vars
    /\ \A t \in Threads :
           WF_vars(monitor_contract(t)) /\ SF_vars(LoadReturns(t))

\* Start requests that race: the steps of start_monitoring interleave.
InitRace == InitState /\ scansLeft = RaceScans

NextRace ==
    \/ \E k \in Callers, c \in ContractIds : StartCheck(k, c)
    \/ \E k \in Callers : StartThread(k)
    \/ \E k \in Callers : StartRegister(k)
    \/ \E t \in Threads : monitor_contract(t)
    \/ \E c \in ContractIds : DeleteContract(c)

SpecRace == InitRace /\ [][NextRace]_vars

\* The threat evaluator on every input of TxInputs.
InitAnalyze ==
    /\ monitors = << >>
    /\ last_processed_block = << >>
    /\ callerPc = [k \in Callers |-> IdleCaller]
    /\ loop = [t \in Threads |-> Unborn]
    /\ db = [contracts |-> [c \in ContractIds |->
                               ContractRow("Normal", "Low", "5min", "base")],
             alerts |-> <<>>, emails |-> <<>>]
    /\ scansLeft = 0
    /\ atx \in TxInputs
    /\ aresult = NotEvaluated

\* threats = self.analyze_transaction(web3, tx)
Evaluate ==
    /\ ~aresult.done
    /\ aresult' = [done |-> TRUE, threats |-> analyze_transaction(atx)]
    /\ UNCHANGED <<monitors, last_processed_block, callerPc, loop, db, scansLeft, atx>>

NextAnalyze == Evaluate

SpecAnalyze == InitAnalyze /\ [][NextAnalyze]_vars

\* ----------------------------------------------------------------- claims
\* The threats analyze_transaction returns over all entries of a window.
RECURSIVE TotalThreats(_)
TotalThreats(txs) ==
    IF txs = <<>> THEN 0
    ELSE Len(analyze_transaction(Head(txs))) + TotalThreats(Tail(txs))

\* The rows of a scan: one Alert per threat, in order.
AlertsOf(c, threats) == [i \in 1..Len(threats) |-> Alert(c, threats[i])]

\* The committed state a reader of the contract and its alerts sees.
Visible(c) ==
    [status |-> Row(c).status, threat_level |-> Row(c).threat_level,
     alerts |-> db.alerts]

AfterAlerting == {"notify", "send", "commit"}

\* C1: in a scan that finds at least one threat, the contract's status is
\* set to Warning and its threat level to Medium exactly once, whatever they
\* were and however many threats there are, and the Alert rows added are as
\* many as the threats analyze_transaction returns over the window's
\* entries; a scan that found threats and got to advance the cursor has
\* committed exactly these.
C1_AlertPerThreat ==
    \A t \in Threads :
        LET l == loop[t]
            n == TotalThreats(l.transactions)
        IN  /\ l.pc \in AfterAlerting =>
                /\ n > 0
                /\ l.statusWrites = 1
                /\ l.session.status = "Warning"
                /\ l.session.threat_level = "Medium"
                /\ Len(l.session.pending) = n
            /\ (l.pc \in {"advance", "sleep"} /\ n > 0 /\ l.failed = "") =>
                /\ l.committed
                /\ l.statusWrites = 1
                /\ Row(l.contract_id).status = "Warning"
                /\ Row(l.contract_id).threat_level = "Medium"
                /\ Len(db.alerts) = Len(l.before.alerts) + n

C1_Witness ==
    \E t \in Threads :
        /\ loop[t].pc = "advance"
        /\ loop[t].committed
        /\ loop[t].before.status = "Warning"
        /\ Len(loop[t].transactions) = 2
        /\ TotalThreats(loop[t].transactions) = 3
        /\ Len(db.alerts) = Len(loop[t].before.alerts) + 3

AnalysisDone == {"alert", "add_alerts", "notify", "send", "commit", "advance", "sleep"}

\* C2: in a scan that finds no threat (no transaction in the window, or none
\* that yields a threat) the contract's status and threat level stay as they
\* were, no Alert row is created, no notification is sent and no commit is
\* issued.
C2_ZeroThreatsNoEffect ==
    \A t \in Threads :
        LET l == loop[t]
        IN  (l.pc \in AnalysisDone /\ TotalThreats(l.transactions) = 0) =>
                /\ l.statusWrites = 0
                /\ l.session.status = l.before.status
                /\ l.session.threat_level = l.before.threat_level
                /\ l.session.pending = <<>>
                /\ l.attempts = <<>>
                /\ l.commits = 0
                /\ Visible(l.contract_id) = l.before

C2_Witness ==
    \E t \in Threads :
        /\ loop[t].pc = "sleep"
        /\ loop[t].advanced
        /\ loop[t].transactions # <<>>
        /\ TotalThreats(loop[t].transactions) = 0

SpawnedFor(c) ==
    {t \in Threads : loop[t].pc # "unborn" /\ loop[t].contract_id = c}

CallsDone(c) ==
    {k \in Callers : callerPc[k].pc = "done" /\ callerPc[k].contract_id = c}

\* C3: over calls of start_monitoring for one contract id that do not
\* overlap, exactly one loop is ever spawned: the first call spawns and
\* registers it, every later call spawns nothing, also once the loop has
\* stopped, and a registry entry is never removed or replaced.
C3_OneLoopPerId ==
    /\ [](\A c \in ContractIds :
            IF CallsDone(c) = {}
            THEN SpawnedFor(c) = {} /\ c \notin DOMAIN monitors
            ELSE /\ c \in DOMAIN monitors
                 /\ SpawnedFor(c) = {monitors[c]}
                 /\ \A k \in CallsDone(c) : monitors[c] <= k)
    /\ [][\A c \in DOMAIN monitors :
            c \in DOMAIN monitors' /\ monitors'[c] = monitors[c]]_vars

C3_Witness ==
    \E k \in Callers, c \in ContractIds :
        /\ callerPc[k].pc = "done"
        /\ callerPc[k].contract_id = c
        /\ callerPc[k].afterStop
        /\ Cardinality(SpawnedFor(c)) = 1

\* C4: when calls of start_monitoring for one contract id interleave, at
\* most one loop is started for that id.
C4_AtMostOneLoopUnderRace ==
    \A c \in ContractIds : Cardinality(SpawnedFor(c)) <= 1

\* C5: no write to a contract's block cursor stores a height below the one
\* it held.
C5_CursorNeverDecreases ==
    [][\A c \in DOMAIN last_processed_block :
            /\ c \in DOMAIN last_processed_block'
            /\ last_processed_block'[c] >= last_processed_block[c]]_vars

BeforeAdvance ==
    {"get_code", "get_logs", "analyze", "alert", "add_alerts", "notify", "send",
     "commit", "advance"}

\* C6: the window of an iteration runs from currentHeight - 100 when the
\* contract has no cursor, and from the height H the last completed scan
\* advanced the cursor to otherwise, up to the height read in the iteration;
\* the log query is issued with that window.
C6_ScanWindow ==
    \A t \in Threads :
        LET l == loop[t]
            c == l.contract_id
            from == IF c \in DOMAIN last_processed_block
                    THEN last_processed_block[c]
                    ELSE l.current_block - 100
        IN  /\ l.pc \in BeforeAdvance =>
                /\ l.from_block = from
                /\ l.hadCursor = (c \in DOMAIN last_processed_block)
                /\ l.current_block \in Heights
            /\ l.query # <<>> => l.query = <<l.from_block, l.current_block>>

C6_Witness ==
    \E t \in Threads :
        /\ loop[t].pc = "analyze"
        /\ loop[t].hadCursor
        /\ loop[t].query = <<100, 101>>
        /\ last_processed_block[loop[t].contract_id] = 100

\* C7: the loop stops only in an iteration whose load of the contract found
\* no record; no error raised in an iteration ends the loop.
C7_StopsOnlyWhenNotFound ==
    [][\A t \in Threads :
            /\ (loop[t].pc # "Stopped" /\ loop'[t].pc = "Stopped") =>
                  /\ loop[t].pc = "load"
                  /\ ~Row(loop[t].contract_id).exists
                  /\ loop'[t].failed = ""
            /\ (loop'[t].failed # loop[t].failed /\ loop'[t].failed # "") =>
                  loop'[t].pc \in {"sleep", "backoff", "advance"}]_vars

C7_Witness ==
    \E t \in Threads :
        /\ loop[t].pc = "Stopped"
        /\ loop[t].exit = "backoff"
        /\ last_processed_block # << >>

ThreatTypes(threats) == {threats[i].type : i \in 1..Len(threats)}

\* C8: with no internal failure, analyze_transaction returns exactly the
\* threats whose rule fires, each at most once: high_value_transfer iff the
\* value exceeds 10 whole units, failed_transaction iff a receipt exists with
\* status 0, high_gas_usage iff a receipt exists with gasUsed above
\* 1,000,000; without a receipt the two receipt rules do not fire.
C8_RulesFireExactly ==
    (aresult.done /\ ~InternalFailure(atx)) =>
        LET types == ThreatTypes(aresult.threats)
        IN  /\ ("high_value_transfer" \in types) <=> WeiGT(atx.value, <<10, 0, 0>>)
            /\ ("failed_transaction" \in types) <=> (atx.receipt /\ atx.status = 0)
            /\ ("high_gas_usage" \in types) <=> (atx.receipt /\ atx.gasUsed > 1000000)
            /\ types \subseteq
                   {"high_value_transfer", "failed_transaction", "high_gas_usage"}
            /\ Len(aresult.threats) = Cardinality(types)
            /\ ~atx.receipt =>
                   types \cap {"failed_transaction", "high_gas_usage"} = {}

C8_Witness ==
    /\ aresult.done
    /\ ~InternalFailure(atx)
    /\ atx.value = <<10, 0, 1>>
    /\ atx.receipt
    /\ atx.status = 0
    /\ atx.gasUsed = 1000000
    /\ ThreatTypes(aresult.threats) = {"high_value_transfer", "failed_transaction"}

\* C9: an internal failure anywhere in analyze_transaction is caught and the
\* result for the transaction is zero threats.
C9_FailureYieldsNoThreats ==
    (aresult.done /\ InternalFailure(atx)) => aresult.threats = <<>>

InIteration ==
    {"connect", "get_code", "get_logs", "analyze", "alert", "add_alerts",
     "notify", "send", "commit", "advance", "sleep"}

\* C10: of a scan that finds threats, the committed state shows either all
\* of its Alert rows together with the status and threat level change (the
\* commit succeeded) or none of them (before the commit, or the commit
\* failed); never a part.
C10_AlertingAtomic ==
    \A t \in Threads :
        LET l == loop[t]
            c == l.contract_id
            all == [status |-> "Warning", threat_level |-> "Medium",
                    alerts |-> l.before.alerts \o AlertsOf(c, l.all_threats)]
        IN  l.pc \in InIteration =>
                /\ l.committed => Visible(c) = all
                /\ ~l.committed => Visible(c) = l.before

C10_Witness ==
    \E t \in Threads :
        /\ loop[t].pc = "sleep"
        /\ loop[t].failed = "commit"
        /\ Len(loop[t].all_threats) >= 2
        /\ loop[t].statusWrites = 1
        /\ Visible(loop[t].contract_id) = loop[t].before

\* C11: in a scan that finds threats, no delivery to a subscriber is
\* attempted before the commit of the scan's Alert rows and status change has
\* succeeded.
C11_CommitBeforeNotify ==
    \A t \in Threads :
        loop[t].attempts # <<>> => loop[t].committed

\* C12: a failed commit of the alerts takes the critical-error path: the
\* iteration ends in the 60 second backoff, never in the sleep of the
\* configured frequency.
C12_CommitFailureIsCritical ==
    \A t \in Threads :
        loop[t].failed = "commit" => loop[t].pc = "backoff"

\* C13: when a log query raises BlockNotFound, get_contract_transactions
\* returns the empty list and nothing propagates: the scan goes on with zero
\* transactions, writes the height it read to the cursor, and then sleeps
\* the time of the configured frequency.
C13_BlockNotFoundYieldsEmpty ==
    [][\A t \in Threads :
        LET l == loop[t]
            l2 == loop'[t]
            c == l.contract_id
        IN  /\ (l.pc = "get_logs" /\ l2.failed = "BlockNotFound") =>
                /\ l2.pc = "advance"
                /\ l2.transactions = <<>>
                /\ l2.all_threats = <<>>
            /\ (l.pc = "advance" /\ l.failed = "BlockNotFound" /\ l2 # l) =>
                /\ l2.pc = "sleep"
                /\ l2.advanced
                /\ last_processed_block'[c] = l.current_block
            /\ (l.pc = "sleep" /\ l.failed = "BlockNotFound" /\ l2 # l) =>
                /\ last_processed_block[c] = l.current_block
                /\ l2.exit = "sleep"
                /\ l2.slept = get_sleep_time(l.session.monitoring_frequency)]_vars

C13_Witness ==
    \E t \in Threads :
        /\ loop[t].pc = "sleep"
        /\ loop[t].failed = "BlockNotFound"
        /\ loop[t].hadCursor
        /\ loop[t].advanced
        /\ last_processed_block[loop[t].contract_id] = loop[t].current_block

\* C14: when the contract's address holds no code the iteration ends there:
\* the cursor, the contract's status and the alerts stay as they were,
\* nothing sleeps, and the loop, still running, starts the next iteration by
\* loading the contract again.
C14_NoCodeBusyLoop ==
    [][\A t \in Threads :
        LET l == loop[t]
            l2 == loop'[t]
        IN  (l.pc = "get_code" /\ l2.exit = "nocode") =>
                /\ l2.pc = "load"
                /\ l2.slept = 0
                /\ ~l2.advanced
                /\ l2.commits = 0
                /\ l2.statusWrites = 0
                /\ last_processed_block' = last_processed_block
                /\ db' = db]_vars

C14_Witness ==
    \E t \in Threads :
        /\ loop[t].pc = "load"
        /\ loop[t].exit = "nocode"
        /\ loop[t].slept = 0
        /\ loop[t].contract_id \in DOMAIN last_processed_block

\* C15: a delivery that fails for one subscriber stays inside
\* send_notifications: every subscriber of the contract is still attempted,
\* in order, nothing is raised into the loop, and the loop goes on to the
\* commit of the scan's alerts and status change.
C15_DeliveryFailureIsolated ==
    \A t \in Threads :
        LET l == loop[t]
        IN  /\ l.pc = "send" =>
                /\ l.attempts \o l.emails = db.emails
                /\ l.failed = ""
                /\ l.commits = 0
            /\ (l.pc = "commit" /\ l.attempts # <<>>) =>
                /\ l.attempts = db.emails
                /\ l.failed = ""
                /\ l.commits = 0
                /\ l.session.pending = AlertsOf(l.contract_id, l.all_threats)
            /\ (l.pc \in {"advance", "sleep"} /\ l.attempts # <<>>) =>
                /\ l.attempts = db.emails
                /\ l.commits = 1
                /\ l.failed \in {"", "commit"}

C15_Witness ==
    \E t \in Threads :
        /\ loop[t].pc = "advance"
        /\ loop[t].committed
        /\ loop[t].attempts = <<"a@x", "b@x">>
        /\ Len(loop[t].delivered) = 1
        /\ loop[t].delivered[1].to = "b@x"
        /\ Len(db.alerts) > Len(loop[t].before.alerts)

\* C16: once the contract's row is deleted, a started loop whose thread
\* keeps running and whose calls and sleeps return reaches Stopped and stays
\* there, from wherever it is: inside a scan, in the no-code retry, in the
\* sleep of the configured frequency or in the 60 second backoff.
C16_DeletedLeadsToStopped ==
    \A t \in Threads :
        (loop[t].pc # "unborn" /\ ~Row(loop[t].contract_id).exists)
            ~> [](loop[t].pc = "Stopped")

C16_Witness ==
    \E t \in Threads :
        /\ loop[t].pc = "Stopped"
        /\ loop[t].exit = "backoff"
        /\ ~Row(loop[t].contract_id).exists

\* C17: while every scan completes without error and the height read never
\* decreases, the inclusive windows of two scans of a contract share no
\* block: the window of a completed scan starts above the last block of the
\* window of the scan before it.
C17_WindowsDisjoint ==
    \A t \in Threads :
        LET l == loop[t]
        IN  (/\ l.normal
             /\ l.pc = "sleep"
             /\ l.advanced
             /\ l.failed = ""
             /\ l.prevQuery # <<>>
             /\ l.query[2] >= l.prevQuery[2]) =>
                l.query[1] > l.prevQuery[2]

RECURSIVE OncePerHash(_, _)
OncePerHash(txs, seen) ==
    IF txs = <<>> THEN <<>>
    ELSE IF Head(txs).hash \in seen THEN OncePerHash(Tail(txs), seen)
    ELSE <<Head(txs)>> \o OncePerHash(Tail(txs), seen \cup {Head(txs).hash})

\* The threats of the entries, in order.
RECURSIVE ThreatsOver(_)
ThreatsOver(txs) ==
    IF txs = <<>> THEN <<>>
    ELSE analyze_transaction(Head(txs)) \o ThreatsOver(Tail(txs))

\* C19: a transaction that the two log queries both return changes nothing:
\* the Alert rows a scan is about to commit and the message it sent are those
\* of the window with every transaction hash evaluated once.
C19_DuplicatesHarmless ==
    \A t \in Threads :
        LET l == loop[t]
            c == l.contract_id
            once == ThreatsOver(OncePerHash(l.transactions, {}))
        IN  l.pc = "commit" =>
                /\ l.session.pending = AlertsOf(c, once)
                /\ \A i \in DOMAIN l.delivered :
                       l.delivered[i].message = Message(c, once)

\* C20: every log query is issued with a window 0 <= fromBlock <= toBlock,
\* whatever the cursor holds and whatever height the client returned.
C20_WindowWellFormed ==
    \A t \in Threads :
        loop[t].query # <<>> =>
            /\ 0 <= loop[t].query[1]
            /\ loop[t].query[1] <= loop[t].query[2]

====
